---- MODULE Spec2Model ----
(***************************************************************************)
(* Driver Assistant (src/api/driver_assistant.py) with the two clients it  *)
(* calls (src/api/routes_client.py, src/api/places_client.py).             *)
(*                                                                         *)
(* Numbers are fixed point:                                                *)
(*   - a coordinate is an integer count of 1e-7 degree;                    *)
(*   - a distance is an integer count of metres (the source's kilometres   *)
(*     times 1000);                                                        *)
(*   - an interval is a fraction [num, den] of metres, so that             *)
(*     distance_km / (num_stops + 1) is exact;                             *)
(*   - driving_hours_limit is an integer count of tenths of an hour.       *)
(* All coordinates of the model lie on one meridian (longitude Lon), where *)
(* the haversine formula reduces to R * |dlat| (in radians).               *)
(***************************************************************************)
EXTENDS Integers, Sequences, FiniteSets, TLC

VARIABLES
    op,              \* the operation invoked on the DriverAssistant
    args,            \* its arguments
    pc,              \* position of the call in its code
    route_response,  \* what compute_route returned
    route_details,   \* what get_route_details returned
    route_points,    \* what interpolate_route_points returned
    idx,             \* the loop index (enumerate(route_points) / range(1, num_stops + 1))
    all_services,    \* find_services_along_route: the stamped records collected so far
    num_stops,       \* plan_driver_stops: the number of stops computed
    planned_stops,   \* plan_driver_stops: the stops appended so far
    emergency_services, \* find_emergency_services: the buckets filled so far
    pending,         \* the provider query in flight (a sequence of at most ... queries)
    calls,           \* every provider event so far, in order: calls and returns
    result,          \* what the operation returned or raised
    suspended,       \* the local variables of a second invocation in progress on
                     \* the same DriverAssistant while it does not run, or None
    clock,           \* time.time(), in ticks
    routes_client,   \* the GoogleRoutesClient: last_request_time, min_interval
    threads,         \* the threads inside _rate_limit: position and local variables
    sent             \* the request times recorded so far, in order

vars == <<op, args, pc, route_response, route_details, route_points, idx,
          all_services, num_stops, planned_stops, emergency_services,
          pending, calls, result, suspended, clock, routes_client, threads, sent>>

(***************************************************************************)
(* Bounds of the model.                                                    *)
(***************************************************************************)
MaxWaypoints == 3      \* a route has at most MaxWaypoints - 1 legs
MaxResponseLen == 2    \* records in one search_nearby response

(***************************************************************************)
(* Arithmetic helpers.                                                     *)
(***************************************************************************)
Abs(x) == IF x < 0 THEN -x ELSE x

Max(a, b) == IF a >= b THEN a ELSE b

Min(a, b) == IF a <= b THEN a ELSE b

\* Python's int(n / d) for d # 0: truncation toward zero.
IntTrunc(n, d) ==
    IF (n >= 0) = (d > 0) THEN Abs(n) \div Abs(d) ELSE -(Abs(n) \div Abs(d))

\* floor(n / d) for d # 0.
Floor(n, d) == IF d > 0 THEN n \div d ELSE (-n) \div (-d)

(***************************************************************************)
(* Geometry: DriverAssistant.calculate_distance.                           *)
(***************************************************************************)
R == 6371                    \* Earth radius, km

MicroRadiansPerDegree == 17453   \* math.radians(1), in 1e-6 radian

Lon == 290000000             \* the meridian of the model, 29 degrees east

\* Python truthiness of a number, as in `if x.get("latitude") and ...`.
Truthy(x) == x # 0

\* Haversine distance in metres. With dlon = 0 the formula's a is
\* sin(dlat/2)^2 and c = 2 * atan2(sqrt(a), sqrt(1 - a)) is |dlat| in radians,
\* so the result is R * |radians(lat2 - lat1)|; the latitude difference is
\* taken in whole millidegrees.
calculate_distance(lat1, lon1, lat2, lon2) ==
    LET dlat == Abs(lat2 - lat1) \div 10000
        metresPerMilliDegree == (R * MicroRadiansPerDegree) \div 1000
    IN  (dlat * metresPerMilliDegree) \div 1000

(***************************************************************************)
(* Route sampling: DriverAssistant.interpolate_route_points.               *)
(* route_response is the provider's JSON: [routes |-> <<route>>], a route  *)
(* [legs, distanceMeters, duration]; a leg [startLocation, endLocation],   *)
(* each standing for the latLng object inside it.                          *)
(* interval_km is a fraction [num, den] of metres.                         *)
(***************************************************************************)
LegPoints(leg) ==
    (IF Truthy(leg.startLocation.latitude) /\ Truthy(leg.startLocation.longitude)
     THEN <<[latitude |-> leg.startLocation.latitude,
             longitude |-> leg.startLocation.longitude]>>
     ELSE <<>>)
    \o
    (IF Truthy(leg.endLocation.latitude) /\ Truthy(leg.endLocation.longitude)
     THEN <<[latitude |-> leg.endLocation.latitude,
             longitude |-> leg.endLocation.longitude]>>
     ELSE <<>>)

RECURSIVE RawRoutePoints(_)
RawRoutePoints(legs) ==
    IF legs = <<>> THEN <<>>
    ELSE LegPoints(Head(legs)) \o RawRoutePoints(Tail(legs))

\* num_intervals = max(1, int(segment_distance / interval_km))
NumIntervals(segment_distance, interval_km) ==
    Max(1, IntTrunc(segment_distance * interval_km.den, interval_km.num))

\* The points of one segment: j in range(num_intervals + 1).
SegmentPoints(point1, point2, total_distance, interval_km) ==
    LET segment_distance == calculate_distance(point1.latitude, point1.longitude,
                                               point2.latitude, point2.longitude)
        num_intervals == NumIntervals(segment_distance, interval_km)
    IN  [k \in 1..(num_intervals + 1) |->
            LET j == k - 1
            IN  [latitude  |-> point1.latitude
                                + (j * (point2.latitude - point1.latitude)) \div num_intervals,
                 longitude |-> point1.longitude
                                + (j * (point2.longitude - point1.longitude)) \div num_intervals,
                 distance_from_start |-> total_distance
                                + (j * segment_distance) \div num_intervals]]

\* As InterpolateFrom, without `total_distance += segment_distance`.
RECURSIVE InterpolateFrom_NoAccumulate(_, _, _, _)
InterpolateFrom_NoAccumulate(raw, i, total_distance, interval_km) ==
    IF i > Len(raw) - 1 THEN <<>>
    ELSE SegmentPoints(raw[i], raw[i + 1], total_distance, interval_km)
         \o InterpolateFrom_NoAccumulate(raw, i + 1, total_distance, interval_km)

RECURSIVE InterpolateFrom(_, _, _, _)
InterpolateFrom(raw, i, total_distance, interval_km) ==
    IF i > Len(raw) - 1 THEN <<>>
    ELSE SegmentPoints(raw[i], raw[i + 1], total_distance, interval_km)
         \o InterpolateFrom(raw, i + 1,
                total_distance + calculate_distance(raw[i].latitude, raw[i].longitude,
                                                    raw[i + 1].latitude, raw[i + 1].longitude),
                interval_km)

\* The result of a call is [return |-> value] or [raise |-> exception].
\* segment_distance / interval_km raises ZeroDivisionError when interval_km is 0
\* and the loop body runs at all.
interpolate_route_points(response, interval_km) ==
    IF response.routes = <<>> THEN [return |-> <<>>]
    ELSE LET raw == RawRoutePoints(response.routes[1].legs)
         IN  IF Len(raw) < 2 THEN [return |-> raw]
             ELSE IF interval_km.num = 0 THEN [raise |-> "ZeroDivisionError"]
             ELSE [return |-> InterpolateFrom(raw, 1, 0, interval_km)]

\* p.get("distance_from_start", 0)
DistanceFromStart(p) ==
    IF "distance_from_start" \in DOMAIN p THEN p.distance_from_start ELSE 0

(***************************************************************************)
(* GoogleRoutesClient: compute_route and get_route_details.                *)
(* An outcome is what the HTTP exchange produced: [raise |-> exception] or *)
(* [json |-> body].                                                        *)
(***************************************************************************)
\* As compute_route, with the error swallowed and an empty response returned.
compute_route_Swallows(outcome) ==
    IF "raise" \in DOMAIN outcome
    THEN [return |-> [routes |-> <<>>]]
    ELSE [return |-> outcome.json]

\* The except clauses log and re-raise; a response is returned as parsed.
compute_route(outcome) ==
    IF "raise" \in DOMAIN outcome
    THEN [raise |-> outcome.raise]
    ELSE [return |-> outcome.json]

DigitChars == <<"0", "1", "2", "3", "4", "5", "6", "7", "8", "9">>

DigitValue(c) == (CHOOSE d \in 1..10 : DigitChars[d] = c) - 1

\* str.replace("s", "")
RECURSIVE RemoveS(_)
RemoveS(chars) ==
    IF chars = <<>> THEN <<>>
    ELSE IF Head(chars) = "s" THEN RemoveS(Tail(chars))
    ELSE <<Head(chars)>> \o RemoveS(Tail(chars))

\* int(text) of a sequence of characters: ValueError unless all are digits.
ParseIntRaises(chars) ==
    chars = <<>> \/ \E k \in 1..Len(chars) : \A d \in 1..10 : DigitChars[d] # chars[k]

RECURSIVE ParseInt(_)
ParseInt(chars) ==
    IF chars = <<>> THEN 0
    ELSE ParseInt(SubSeq(chars, 1, Len(chars) - 1)) * 10 + DigitValue(chars[Len(chars)])

\* distance_km is kept in metres; duration_minutes is duration_seconds / 60 and
\* is kept as that fraction.
RouteDetails(route) ==
    LET seconds == ParseInt(RemoveS(route.duration))
    IN  [distance_meters  |-> route.distanceMeters,
         distance_km      |-> route.distanceMeters,
         duration_seconds |-> seconds,
         duration_minutes |-> [num |-> seconds, den |-> 60],
         legs             |-> Len(route.legs)]

\* As get_route_details, with default details for a response without routes.
get_route_details_Default(response) ==
    IF response.routes = <<>>
    THEN [return |-> [distance_meters |-> 0, distance_km |-> 0, duration_seconds |-> 0,
                      duration_minutes |-> [num |-> 0, den |-> 60], legs |-> 0]]
    ELSE IF ParseIntRaises(RemoveS(response.routes[1].duration))
    THEN [raise |-> "ValueError"]
    ELSE [return |-> RouteDetails(response.routes[1])]

get_route_details(response) ==
    IF response.routes = <<>> THEN [raise |-> "ValueError"]
    ELSE IF ParseIntRaises(RemoveS(response.routes[1].duration))
    THEN [raise |-> "ValueError"]
    ELSE [return |-> RouteDetails(response.routes[1])]

(***************************************************************************)
(* GooglePlacesClient.search_nearby: both except clauses return [].        *)
(***************************************************************************)
\* As search_nearby, with the error passed on to the caller.
search_nearby_Propagates(outcome) ==
    IF "raise" \in DOMAIN outcome
    THEN [raise |-> outcome.raise]
    ELSE [return |-> outcome.json.places]

search_nearby(outcome) ==
    IF "raise" \in DOMAIN outcome
    THEN [return |-> <<>>]
    ELSE [return |-> outcome.json.places]

(***************************************************************************)
(* find_services_along_route: stamping, deduplication, sorting, summary.   *)
(***************************************************************************)
\* What the loop body adds to one record returned at `point`.
Stamp(service, point) ==
    LET search_point == [latitude  |-> point.latitude,
                         longitude |-> point.longitude,
                         distance_from_start |-> DistanceFromStart(point)]
        location == service.location
    IN  IF Truthy(location.latitude) /\ Truthy(location.longitude)
        THEN [id |-> service.id, displayName |-> service.displayName,
              location |-> location, types |-> service.types,
              search_point |-> search_point,
              distance_from_route |->
                  calculate_distance(point.latitude, point.longitude,
                                     location.latitude, location.longitude)]
        ELSE [id |-> service.id, displayName |-> service.displayName,
              location |-> location, types |-> service.types,
              search_point |-> search_point]

StampAll(services, point) ==
    [k \in 1..Len(services) |-> Stamp(services[k], point)]

\* f"{x:.6f}" of a coordinate x >= 0 counted in 1e-7 degree: rounded to 1e-6
\* degree, the integer part, a point, and six digits.
RECURSIVE Digits(_, _)
Digits(n, width) ==
    IF width = 0 THEN ""
    ELSE Digits(n \div 10, width - 1) \o DigitChars[(n % 10) + 1]

Format6(x) ==
    LET micro == (x + 5) \div 10
    IN  ToString(micro \div 1000000) \o "." \o Digits(micro % 1000000, 6)

CoordKey(location) ==
    Format6(location.latitude) \o "," \o Format6(location.longitude)

\* The key under which the record is entered in unique_services.
DedupKey(service) ==
    IF service.id # "" THEN service.id ELSE CoordKey(service.location)

Keys(unique_services) ==
    {unique_services[k].key : k \in 1..Len(unique_services)}

\* As AddUnique, without the `not in` tests: a later record with the same key
\* takes the place of the one entered first (unique_services[key] = service).
AddUnique_LastWins(unique_services, service) ==
    IF DedupKey(service) \in Keys(unique_services)
    THEN [k \in 1..Len(unique_services) |->
             IF unique_services[k].key = DedupKey(service)
             THEN [key |-> DedupKey(service), value |-> service]
             ELSE unique_services[k]]
    ELSE Append(unique_services, [key |-> DedupKey(service), value |-> service])

\* As AddUnique, with a record without id entered unconditionally.
AddUnique_NoCoordCheck(unique_services, service) ==
    IF service.id # "" /\ service.id \notin Keys(unique_services)
    THEN Append(unique_services, [key |-> service.id, value |-> service])
    ELSE IF service.id = ""
    THEN Append(unique_services, [key |-> CoordKey(service.location), value |-> service])
    ELSE unique_services

\* One iteration of `for service in all_services`; unique_services is the
\* dict in insertion order, a sequence of [key, value].
AddUnique(unique_services, service) ==
    IF service.id # "" /\ service.id \notin Keys(unique_services)
    THEN Append(unique_services, [key |-> service.id, value |-> service])
    ELSE IF service.id = "" /\ CoordKey(service.location) \notin Keys(unique_services)
    THEN Append(unique_services, [key |-> CoordKey(service.location), value |-> service])
    ELSE unique_services

RECURSIVE UniqueServices(_)
UniqueServices(services) ==
    IF services = <<>> THEN <<>>
    ELSE AddUnique(UniqueServices(SubSeq(services, 1, Len(services) - 1)),
                   services[Len(services)])

Values(unique_services) ==
    [k \in 1..Len(unique_services) |-> unique_services[k].value]

\* list.sort(key=...): stable, ascending.
\* x.get("search_point", {}).get("distance_from_start", 0)
SortKey(service) ==
    IF "search_point" \in DOMAIN service
    THEN DistanceFromStart(service.search_point)
    ELSE 0

\* As InsertSorted, unstable: the record goes before those of equal distance.
RECURSIVE InsertSorted_BeforeEqual(_, _)
InsertSorted_BeforeEqual(sorted, service) ==
    IF sorted = <<>> THEN <<service>>
    ELSE IF SortKey(sorted[Len(sorted)]) < SortKey(service)
    THEN Append(sorted, service)
    ELSE Append(InsertSorted_BeforeEqual(SubSeq(sorted, 1, Len(sorted) - 1), service),
                sorted[Len(sorted)])

RECURSIVE InsertSorted(_, _)
InsertSorted(sorted, service) ==
    IF sorted = <<>> THEN <<service>>
    ELSE IF SortKey(sorted[Len(sorted)]) <= SortKey(service)
    THEN Append(sorted, service)
    ELSE Append(InsertSorted(SubSeq(sorted, 1, Len(sorted) - 1), service),
                sorted[Len(sorted)])

RECURSIVE SortByDistance(_)
SortByDistance(services) ==
    IF services = <<>> THEN <<>>
    ELSE InsertSorted(SortByDistance(SubSeq(services, 1, Len(services) - 1)),
                      services[Len(services)])

\* As TypeOccurrences, looking at the first type of the record only.
TypeOccurrences_FirstOnly(service, t) ==
    IF service.types # <<>> /\ service.types[1] = t THEN 1 ELSE 0

\* _categorize_services: type -> number of occurrences.
TypeOccurrences(service, t) ==
    Cardinality({k \in 1..Len(service.types) : service.types[k] = t})

RECURSIVE CountType(_, _)
CountType(services, t) ==
    IF services = <<>> THEN 0
    ELSE TypeOccurrences(Head(services), t) + CountType(Tail(services), t)

categorize_services(services) ==
    LET present == UNION {{services[k].types[m] : m \in 1..Len(services[k].types)}
                          : k \in 1..Len(services)}
    IN  [t \in present |-> CountType(services, t)]

\* The dict returned at the end of find_services_along_route.
ServicesReport(a, details, points, services) ==
    LET unique_services_list == SortByDistance(Values(UniqueServices(services)))
    IN  [route_info |-> [origin |-> a.origin, destination |-> a.destination,
                         distance_km |-> details.distance_km,
                         duration_minutes |-> details.duration_minutes,
                         search_parameters |->
                             [service_types |-> a.service_types,
                              search_radius_km |-> a.search_radius_km,
                              interval_km |-> a.interval_km]],
         route_points |-> points,
         services_found |-> unique_services_list,
         summary |-> [total_services |-> Len(unique_services_list),
                      services_by_type |-> categorize_services(unique_services_list)]]

(***************************************************************************)
(* Inputs: what the providers may answer, and the arguments of the calls.  *)
(***************************************************************************)
Loc(lat) == [latitude |-> lat, longitude |-> Lon]

Leg(a, b) == [startLocation |-> Loc(a), endLocation |-> Loc(b)]

\* Latitudes of route waypoints: 0 (falsy), 41.0 and 41.5 degrees north.
Lats == {0, 410000000, 415000000}

\* All sequences over S of length at most n, without repetition.
RECURSIVE SeqsUpTo(_, _)
SeqsUpTo(S, n) ==
    IF n = 0 THEN {<<>>}
    ELSE LET shorter == SeqsUpTo(S, n - 1)
         IN  shorter \cup {Append(q, x) : q \in shorter, x \in S}

InjectiveSeqs(S, n) ==
    {q \in SeqsUpTo(S, n) : \A i, j \in 1..Len(q) : i # j => q[i] # q[j]}

\* Routes from origin to destination without intermediates: one leg.
Route(waypoints, distanceMeters, duration) ==
    [legs |-> [k \in 1..(Len(waypoints) - 1) |-> Leg(waypoints[k], waypoints[k + 1])],
     distanceMeters |-> distanceMeters,
     duration |-> duration]

HttpErrors == {"HTTPError", "RequestException"}

RouteOutcomes(routes) ==
    {[raise |-> e] : e \in HttpErrors}
    \cup {[json |-> [routes |-> <<>>]]}
    \cup {[json |-> [routes |-> <<r>>]] : r \in routes}

\* Places a search may return. A has an id; B, C and D have none; B and C
\* differ in the seventh decimal of the latitude and format to the same
\* "%.6f" text, D formats to another: it lies on the equator, at latitude 0.
PlaceA == [id |-> "ChIJ-A", displayName |-> [text |-> <<"S", "h", "e", "l", "l">>],
           location |-> Loc(410100000), types |-> <<"gas_station">>]

PlaceB == [id |-> "", displayName |-> [text |-> <<"O", "p", "e", "t">>],
           location |-> Loc(410000001), types |-> <<"gas_station", "restaurant">>]

PlaceC == [id |-> "", displayName |-> [text |-> <<"2", "4">>],
           location |-> Loc(410000004), types |-> <<"restaurant">>]

PlaceD == [id |-> "", displayName |-> [text |-> <<"B", "P">>],
           location |-> Loc(0), types |-> <<"truck_stop">>]

ServicePlaces == {PlaceA, PlaceB, PlaceC, PlaceD}

SearchOutcomes(places) ==
    {[raise |-> e] : e \in HttpErrors}
    \cup {[json |-> [places |-> q]] : q \in InjectiveSeqs(places, MaxResponseLen)}

FindServicesRoutes ==
    {Route(<<a, b>>, 454000, <<"1", "8", "3", "0", "0", "s">>) : a, b \in Lats}

FindServicesArgs ==
    {[origin |-> Loc(410000000), destination |-> Loc(415000000),
      service_types |-> <<"gas_station", "truck_stop", "restaurant">>,
      search_radius_km |-> 10,
      interval_km |-> [num |-> i, den |-> 1]] : i \in {25000, 50000}}

\* The responses drawn while two invocations are in progress: an error, no
\* route, one route of 540 minutes; an error, two places.
FewRouteOutcomes ==
    {[raise |-> "HTTPError"], [json |-> [routes |-> <<>>]],
     [json |-> [routes |-> <<Route(<<410000000, 415000000>>, 454000,
                                   <<"3", "2", "4", "0", "0", "s">>)>>]]}

FewPlaceOutcomes ==
    {[raise |-> "RequestException"], [json |-> [places |-> <<PlaceA, PlaceC>>]]}

\* The responses a provider call draws from: all of them for one invocation,
\* the few above for two.
Offered(all, few) == IF suspended = [none |-> TRUE] THEN all ELSE few

(***************************************************************************)
(* Provider events.                                                        *)
(***************************************************************************)
RouteQuery(a) ==
    [api |-> "compute_route", origin |-> a.origin, destination |-> a.destination]

NearbyQuery(point, radius_meters, place_types) ==
    [api |-> "search_nearby", latitude |-> point.latitude,
     longitude |-> point.longitude, radius_meters |-> radius_meters,
     place_types |-> place_types]

CallEvent(q) == [ev |-> "call", query |-> q]

ReturnEvent(q, outcome) == [ev |-> "return", query |-> q, outcome |-> outcome]

None == [none |-> TRUE]

\* As LoopDone, with the last iteration left out.
LoopDone_OffByOne(i, n) == i >= n

\* The loops run i = 1, 2, ..., n: `for i, point in enumerate(route_points)`,
\* `for i in range(1, num_stops + 1)`.
LoopDone(i, n) == i > n

\* As LoopPoint, iterating from the destination back to the origin.
LoopPoint_Reversed(points, i) == points[Len(points) + 1 - i]

\* The point of iteration i.
LoopPoint(points, i) == points[i]

(***************************************************************************)
(* find_services_along_route, step by step. The call blocks on the route   *)
(* query and on one place query per sampled point.                         *)
(***************************************************************************)
(***************************************************************************)
(* GoogleRoutesClient.__init__: the state of the rate limiter. Times are   *)
(* in ticks, TicksPerSecond to the second.                                 *)
(***************************************************************************)
TicksPerSecond == 2

requests_per_minute == 60

Epoch == 100     \* time.time() when the client is created

FreshRoutesClient ==
    [last_request_time |-> 0,
     min_interval |-> (60 * TicksPerSecond) \div requests_per_minute]

\* No thread is inside _rate_limit and none enters.
NoPacing ==
    /\ clock = Epoch
    /\ routes_client = FreshRoutesClient
    /\ threads = <<>>
    /\ sent = <<>>

InitLocals ==
    /\ pc = "start"
    /\ route_response = None
    /\ route_details = None
    /\ route_points = <<>>
    /\ idx = 0
    /\ all_services = <<>>
    /\ num_stops = 0
    /\ planned_stops = <<>>
    /\ emergency_services = None
    /\ pending = <<>>
    /\ calls = <<>>
    /\ result = None

\* One invocation on a fresh DriverAssistant. The pacing of the requests
\* (_rate_limit, time.sleep) is left to the specification of _rate_limit.
InitCommon ==
    /\ InitLocals
    /\ suspended = None
    /\ NoPacing

InitFindServices ==
    /\ op = "find_services_along_route"
    /\ args \in FindServicesArgs
    /\ InitCommon

\* self.routes_client.compute_route(...) is entered.
FindServices_ComputeRoute ==
    /\ op = "find_services_along_route"
    /\ pc = "start"
    /\ pending' = Append(pending, RouteQuery(args))
    /\ calls' = Append(calls, CallEvent(RouteQuery(args)))
    /\ pc' = "compute_route"
    /\ UNCHANGED <<clock, routes_client, threads, sent, suspended,
                   op, args, route_response, route_details, route_points, idx,
                   all_services, num_stops, planned_stops, emergency_services, result>>

\* compute_route returns or raises; get_route_details and
\* interpolate_route_points run; `except Exception: raise` passes any error on.
FindServices_RouteReturned ==
    /\ op = "find_services_along_route"
    /\ pc = "compute_route"
    /\ \E outcome \in Offered(RouteOutcomes(FindServicesRoutes), FewRouteOutcomes) :
        LET r == compute_route(outcome)
        IN  /\ pending' = Tail(pending)
            /\ calls' = Append(calls, ReturnEvent(Head(pending), outcome))
            /\ IF "raise" \in DOMAIN r
               THEN /\ result' = [raise |-> r.raise]
                    /\ pc' = "raised"
                    /\ UNCHANGED <<route_response, route_details, route_points, idx>>
               ELSE LET details == get_route_details(r.return)
                        points == interpolate_route_points(r.return, args.interval_km)
                    IN  /\ route_response' = r.return
                        /\ IF "raise" \in DOMAIN details
                           THEN /\ result' = [raise |-> details.raise]
                                /\ pc' = "raised"
                                /\ UNCHANGED <<route_details, route_points, idx>>
                           ELSE IF "raise" \in DOMAIN points
                           THEN /\ result' = [raise |-> points.raise]
                                /\ pc' = "raised"
                                /\ route_details' = details.return
                                /\ UNCHANGED <<route_points, idx>>
                           ELSE /\ route_details' = details.return
                                /\ route_points' = points.return
                                /\ idx' = 1
                                /\ pc' = "loop"
                                /\ UNCHANGED result
    /\ UNCHANGED <<clock, routes_client, threads, sent, suspended,
                   op, args, all_services, num_stops, planned_stops, emergency_services>>

\* The loop reaches point idx: self.places_client.search_nearby(...) is entered.
FindServices_SearchNearby ==
    /\ op = "find_services_along_route"
    /\ pc = "loop"
    /\ ~LoopDone(idx, Len(route_points))
    /\ LET q == NearbyQuery(LoopPoint(route_points, idx), args.search_radius_km * 1000,
                            args.service_types)
       IN  /\ pending' = Append(pending, q)
           /\ calls' = Append(calls, CallEvent(q))
    /\ pc' = "search_nearby"
    /\ UNCHANGED <<clock, routes_client, threads, sent, suspended,
                   op, args, route_response, route_details, route_points, idx,
                   all_services, num_stops, planned_stops, emergency_services, result>>

\* search_nearby returns; the records are stamped and collected; time.sleep(1).
\* An exception would leave through `except Exception: raise`.
FindServices_SearchReturned ==
    /\ op = "find_services_along_route"
    /\ pc = "search_nearby"
    /\ \E outcome \in Offered(SearchOutcomes(ServicePlaces), FewPlaceOutcomes) :
        LET services == search_nearby(outcome)
        IN  /\ calls' = Append(calls, ReturnEvent(Head(pending), outcome))
            /\ IF "raise" \in DOMAIN services
               THEN /\ result' = [raise |-> services.raise]
                    /\ pc' = "raised"
                    /\ UNCHANGED <<all_services, idx>>
               ELSE /\ all_services' = all_services
                            \o StampAll(services.return, LoopPoint(route_points, idx))
                    /\ idx' = idx + 1
                    /\ pc' = "loop"
                    /\ UNCHANGED result
    /\ pending' = Tail(pending)
    /\ UNCHANGED <<clock, routes_client, threads, sent, suspended,
                   op, args, route_response, route_details, route_points,
                   num_stops, planned_stops, emergency_services>>

\* The loop is over: deduplicate, sort, build the report, return it.
FindServices_Return ==
    /\ op = "find_services_along_route"
    /\ pc = "loop"
    /\ LoopDone(idx, Len(route_points))
    /\ result' = [return |-> ServicesReport(args, route_details, route_points, all_services)]
    /\ pc' = "returned"
    /\ UNCHANGED <<clock, routes_client, threads, sent, suspended,
                   op, args, route_response, route_details, route_points, idx,
                   all_services, num_stops, planned_stops, emergency_services,
                   pending, calls>>

NextFindServices ==
    \/ FindServices_ComputeRoute
    \/ FindServices_RouteReturned
    \/ FindServices_SearchNearby
    \/ FindServices_SearchReturned
    \/ FindServices_Return

SpecFindServices == InitFindServices /\ [][NextFindServices]_vars

(***************************************************************************)
(* plan_driver_stops.                                                      *)
(***************************************************************************)
\* num_stops = max(0, int(total_duration_hours / driving_hours_limit)) with
\* total_duration_hours = duration_minutes / 60 = duration_seconds / 3600 and
\* the limit in tenths of an hour: the quotient is seconds / (360 * limit).
\* A limit of 0 divides by zero.
\* As NumStops, with a stop only when the duration exceeds the limit.
NumStops_Strict(details, driving_hours_limit) ==
    IF driving_hours_limit = 0 THEN [raise |-> "ZeroDivisionError"]
    ELSE [return |-> Max(0, IntTrunc(details.duration_seconds - 1,
                                     360 * driving_hours_limit))]

NumStops(details, driving_hours_limit) ==
    IF driving_hours_limit = 0 THEN [raise |-> "ZeroDivisionError"]
    ELSE [return |-> Max(0, IntTrunc(details.duration_seconds, 360 * driving_hours_limit))]

\* As NoStopNeeded, with the early return left out.
NoStopNeeded_Never(n) == FALSE

\* if num_stops == 0: return ...
NoStopNeeded(n) == n = 0

\* stop_interval_km = distance_km / (num_stops + 1)
StopInterval(details, n) == [num |-> details.distance_km, den |-> n + 1]

\* As StopDistance, with the interval distance_km / num_stops.
StopDistance_PerStop(details, n, i) == [num |-> i * details.distance_km, den |-> n]

\* stop_distance = i * stop_interval_km
StopDistance(details, n, i) == [num |-> i * details.distance_km, den |-> n + 1]

\* As SnapKey, negated: the smallest key is that of the farthest point.
SnapKey_Farthest(p, stop_distance) ==
    -Abs(DistanceFromStart(p) * stop_distance.den - stop_distance.num)

\* abs(p.get("distance_from_start", 0) - stop_distance), times the denominator.
SnapKey(p, stop_distance) ==
    Abs(DistanceFromStart(p) * stop_distance.den - stop_distance.num)

\* As ClosestPoint, with the last of the points with the smallest key.
ClosestPoint_LastWins(points, stop_distance) ==
    LET best == CHOOSE k \in 1..Len(points) :
                    /\ \A m \in 1..Len(points) :
                           SnapKey(points[k], stop_distance) <= SnapKey(points[m], stop_distance)
                    /\ \A m \in (k + 1)..Len(points) :
                           SnapKey(points[m], stop_distance) > SnapKey(points[k], stop_distance)
    IN  points[best]

\* min(route_points, key=...): the first point with the smallest key.
ClosestPoint(points, stop_distance) ==
    LET best == CHOOSE k \in 1..Len(points) :
                    /\ \A m \in 1..Len(points) :
                           SnapKey(points[k], stop_distance) <= SnapKey(points[m], stop_distance)
                    /\ \A m \in 1..(k - 1) :
                           SnapKey(points[m], stop_distance) > SnapKey(points[k], stop_distance)
    IN  points[best]

\* round(n / d) to the nearest integer, ties to even, for n >= 0 and d > 0:
\* the number printed by f"{x:.0f}".
RoundHalfEven(n, d) ==
    LET q == n \div d
        r == n % d
    IN  IF 2 * r < d THEN q
        ELSE IF 2 * r > d THEN q + 1
        ELSE IF q % 2 = 0 THEN q ELSE q + 1

\* (stop_distance / distance_km) * duration_minutes, printed with no decimals:
\* i * duration_seconds / (60 * (num_stops + 1)) minutes from start.
EstimatedArrival(details, n, i) ==
    RoundHalfEven(i * details.duration_seconds, 60 * (n + 1))

\* GooglePlacesClient.search_truck_friendly_places: both except clauses return [].
search_truck_friendly_places(outcome) ==
    IF "raise" \in DOMAIN outcome
    THEN [return |-> <<>>]
    ELSE [return |-> outcome.json.places]

\* As FirstFive, keeping the last five: stop_services[-5:].
FirstFive_LastFive(stop_services) ==
    SubSeq(stop_services, Max(1, Len(stop_services) - 4), Len(stop_services))

\* stop_services[:5]
FirstFive(stop_services) == SubSeq(stop_services, 1, Min(5, Len(stop_services)))

\* As PlannedStop, with the arrival time taken from the snapped distance.
PlannedStop_SnappedArrival(details, n, i, closest_point, stop_services) ==
    [stop_number |-> i,
     planned_distance_km |-> StopDistance(details, n, i),
     actual_distance_km |-> DistanceFromStart(closest_point),
     location |-> [latitude |-> closest_point.latitude,
                   longitude |-> closest_point.longitude],
     estimated_arrival_time |->
         RoundHalfEven(DistanceFromStart(closest_point) * (details.duration_seconds \div 60),
                       details.distance_km),
     available_services |-> FirstFive(stop_services),
     service_count |-> Len(stop_services)]

\* The dict appended to planned_stops for stop i.
PlannedStop(details, n, i, closest_point, stop_services) ==
    [stop_number |-> i,
     planned_distance_km |-> StopDistance(details, n, i),
     actual_distance_km |-> DistanceFromStart(closest_point),
     location |-> [latitude |-> closest_point.latitude,
                   longitude |-> closest_point.longitude],
     estimated_arrival_time |-> EstimatedArrival(details, n, i),
     available_services |-> FirstFive(stop_services),
     service_count |-> Len(stop_services)]

\* The dict returned when num_stops == 0: it has no planned_stops.
NoStopsResult(details) ==
    [route_info |-> details, stops_needed |-> 0]

RECURSIVE SumServiceCount(_)
SumServiceCount(stops) ==
    IF stops = <<>> THEN 0
    ELSE Head(stops).service_count + SumServiceCount(Tail(stops))

\* The dict returned after the loop.
StopsPlan(a, details, n, stops) ==
    [route_info |-> [total_distance_km |-> details.distance_km,
                     total_duration_hours |-> [num |-> details.duration_seconds, den |-> 3600],
                     origin |-> a.origin, destination |-> a.destination],
     regulation_info |-> [driving_limit_hours |-> a.driving_hours_limit,
                          stops_required |-> n],
     planned_stops |-> stops,
     summary |-> [total_stops |-> Len(stops),
                  average_services_per_stop |->
                      IF stops = <<>> THEN [num |-> 0, den |-> 1]
                      ELSE [num |-> SumServiceCount(stops), den |-> Len(stops)]]]

MaxTruckResults == 6   \* records in one search_truck_friendly_places response

TruckPlace(k) ==
    [id |-> "", displayName |-> [text |-> DigitChars[k + 1]],
     location |-> Loc(410000000 + k * 1000), types |-> <<"truck_stop">>]

Reverse(q) == [k \in 1..Len(q) |-> q[Len(q) + 1 - k]]

\* Responses of every length up to MaxTruckResults, in two orders.
TruckOutcomes ==
    LET all == [k \in 1..MaxTruckResults |-> TruckPlace(k)]
    IN  {[raise |-> e] : e \in HttpErrors}
        \cup {[json |-> [places |-> SubSeq(all, 1, n)]] : n \in 0..MaxTruckResults}
        \cup {[json |-> [places |-> Reverse(SubSeq(all, 1, n))]] : n \in 2..MaxTruckResults}

\* 250, 270, 300, 305 and 540 minutes.
Durations ==
    {<<"1", "5", "0", "0", "0", "s">>, <<"1", "6", "2", "0", "0", "s">>,
     <<"1", "8", "0", "0", "0", "s">>, <<"1", "8", "3", "0", "0", "s">>,
     <<"3", "2", "4", "0", "0", "s">>}

\* A route of 810 minutes whose second of three stops, planned at 41697 m,
\* lies midway between the samples at 27798 m and 55596 m.
MidwayRoute ==
    Route(<<410000000, 415000000>>, 83394, <<"4", "8", "6", "0", "0", "s">>)

\* A route of two legs and 540 minutes, there and back.
RoundTripRoute ==
    Route(<<410000000, 415000000, 410000000>>, 120000, <<"3", "2", "4", "0", "0", "s">>)

PlanStopsRoutes ==
    {Route(<<a, b>>, d, t) : a, b \in Lats, d \in {0, 60000, 454000}, t \in Durations}
    \cup {MidwayRoute, RoundTripRoute}

\* Limits of 4.5 h, 0 h and -4.5 h.
PlanStopsArgs ==
    {[origin |-> Loc(410000000), destination |-> Loc(415000000),
      driving_hours_limit |-> l,
      preferred_stop_types |-> <<"truck_stop", "rest_stop", "gas_station">>]
     : l \in {45, 0, -45}}

TruckQuery(point, radius_meters, place_types) ==
    [api |-> "search_truck_friendly_places", latitude |-> point.latitude,
     longitude |-> point.longitude, radius_meters |-> radius_meters,
     place_types |-> place_types]

InitPlanStops ==
    /\ op = "plan_driver_stops"
    /\ args \in PlanStopsArgs
    /\ InitCommon

\* self.routes_client.compute_route(...) is entered.
PlanStops_ComputeRoute ==
    /\ op = "plan_driver_stops"
    /\ pc = "start"
    /\ pending' = Append(pending, RouteQuery(args))
    /\ calls' = Append(calls, CallEvent(RouteQuery(args)))
    /\ pc' = "compute_route"
    /\ UNCHANGED <<clock, routes_client, threads, sent, suspended,
                   op, args, route_response, route_details, route_points, idx,
                   all_services, num_stops, planned_stops, emergency_services, result>>

\* compute_route returns or raises (no try block here); get_route_details;
\* num_stops; the early return; the sampling; min() of an empty list raises
\* ValueError in the first iteration.
PlanStops_RouteReturned ==
    /\ op = "plan_driver_stops"
    /\ pc = "compute_route"
    /\ \E outcome \in Offered(RouteOutcomes(PlanStopsRoutes), FewRouteOutcomes) :
        LET r == compute_route(outcome)
        IN  /\ pending' = Tail(pending)
            /\ calls' = Append(calls, ReturnEvent(Head(pending), outcome))
            /\ IF "raise" \in DOMAIN r
               THEN /\ result' = [raise |-> r.raise]
                    /\ pc' = "raised"
                    /\ UNCHANGED <<route_response, route_details, route_points,
                                   idx, num_stops>>
               ELSE LET details == get_route_details(r.return)
                        n == NumStops(details.return, args.driving_hours_limit)
                        points == interpolate_route_points(r.return,
                                      StopInterval(details.return, n.return))
                    IN  /\ route_response' = r.return
                        /\ IF "raise" \in DOMAIN details
                           THEN /\ result' = [raise |-> details.raise]
                                /\ pc' = "raised"
                                /\ UNCHANGED <<route_details, route_points, idx, num_stops>>
                           ELSE IF "raise" \in DOMAIN n
                           THEN /\ result' = [raise |-> n.raise]
                                /\ pc' = "raised"
                                /\ route_details' = details.return
                                /\ UNCHANGED <<route_points, idx, num_stops>>
                           ELSE IF NoStopNeeded(n.return)
                           THEN /\ result' = [return |-> NoStopsResult(details.return)]
                                /\ pc' = "returned"
                                /\ route_details' = details.return
                                /\ num_stops' = n.return
                                /\ UNCHANGED <<route_points, idx>>
                           ELSE IF "raise" \in DOMAIN points
                           THEN /\ result' = [raise |-> points.raise]
                                /\ pc' = "raised"
                                /\ route_details' = details.return
                                /\ num_stops' = n.return
                                /\ UNCHANGED <<route_points, idx>>
                           ELSE IF ~LoopDone(1, n.return) /\ points.return = <<>>
                           THEN /\ result' = [raise |-> "ValueError"]
                                /\ pc' = "raised"
                                /\ route_details' = details.return
                                /\ num_stops' = n.return
                                /\ route_points' = points.return
                                /\ UNCHANGED idx
                           ELSE /\ route_details' = details.return
                                /\ num_stops' = n.return
                                /\ route_points' = points.return
                                /\ idx' = 1
                                /\ pc' = "loop"
                                /\ UNCHANGED result
    /\ UNCHANGED <<clock, routes_client, threads, sent, suspended,
                   op, args, all_services, planned_stops, emergency_services>>

\* Iteration idx: the closest point is chosen and
\* self.places_client.search_truck_friendly_places(...) is entered.
PlanStops_SearchTruck ==
    /\ op = "plan_driver_stops"
    /\ pc = "loop"
    /\ ~LoopDone(idx, num_stops)
    /\ LET closest_point == ClosestPoint(route_points,
                                         StopDistance(route_details, num_stops, idx))
           q == TruckQuery(closest_point, 15000, args.preferred_stop_types)
       IN  /\ pending' = Append(pending, q)
           /\ calls' = Append(calls, CallEvent(q))
    /\ pc' = "search_truck_friendly_places"
    /\ UNCHANGED <<clock, routes_client, threads, sent, suspended,
                   op, args, route_response, route_details, route_points, idx,
                   all_services, num_stops, planned_stops, emergency_services, result>>

\* The search returns; the stop is appended. stop_distance / distance_km
\* divides by zero for a route of distance 0.
PlanStops_SearchReturned ==
    /\ op = "plan_driver_stops"
    /\ pc = "search_truck_friendly_places"
    /\ \E outcome \in Offered(TruckOutcomes, FewPlaceOutcomes) :
        LET stop_services == search_truck_friendly_places(outcome)
            closest_point == ClosestPoint(route_points,
                                          StopDistance(route_details, num_stops, idx))
        IN  /\ calls' = Append(calls, ReturnEvent(Head(pending), outcome))
            /\ IF "raise" \in DOMAIN stop_services
               THEN /\ result' = [raise |-> stop_services.raise]
                    /\ pc' = "raised"
                    /\ UNCHANGED <<planned_stops, idx>>
               ELSE IF route_details.distance_km = 0
               THEN /\ result' = [raise |-> "ZeroDivisionError"]
                    /\ pc' = "raised"
                    /\ UNCHANGED <<planned_stops, idx>>
               ELSE /\ planned_stops' = Append(planned_stops,
                            PlannedStop(route_details, num_stops, idx,
                                        closest_point, stop_services.return))
                    /\ idx' = idx + 1
                    /\ pc' = "loop"
                    /\ UNCHANGED result
    /\ pending' = Tail(pending)
    /\ UNCHANGED <<clock, routes_client, threads, sent, suspended,
                   op, args, route_response, route_details, route_points,
                   all_services, num_stops, emergency_services>>

\* The loop is over: the plan is returned.
PlanStops_Return ==
    /\ op = "plan_driver_stops"
    /\ pc = "loop"
    /\ LoopDone(idx, num_stops)
    /\ result' = [return |-> StopsPlan(args, route_details, num_stops, planned_stops)]
    /\ pc' = "returned"
    /\ UNCHANGED <<clock, routes_client, threads, sent, suspended,
                   op, args, route_response, route_details, route_points, idx,
                   all_services, num_stops, planned_stops, emergency_services,
                   pending, calls>>

NextPlanStops ==
    \/ PlanStops_ComputeRoute
    \/ PlanStops_RouteReturned
    \/ PlanStops_SearchTruck
    \/ PlanStops_SearchReturned
    \/ PlanStops_Return

SpecPlanStops == InitPlanStops /\ [][NextPlanStops]_vars

(***************************************************************************)
(* GooglePlacesClient.search_24h_services and find_emergency_services.     *)
(* A name is a sequence of characters; the two non-ASCII letters of the    *)
(* Turkish indicator are written "c-cedilla" and "dotless-i".              *)
(***************************************************************************)
UpperChars == <<"A", "B", "C", "D", "E", "F", "G", "H", "I", "J", "K", "L", "M",
                "N", "O", "P", "Q", "R", "S", "T", "U", "V", "W", "X", "Y", "Z">>

LowerChars == <<"a", "b", "c", "d", "e", "f", "g", "h", "i", "j", "k", "l", "m",
                "n", "o", "p", "q", "r", "s", "t", "u", "v", "w", "x", "y", "z">>

\* str.lower()
Lower(chars) ==
    [k \in 1..Len(chars) |->
        IF \E u \in 1..26 : UpperChars[u] = chars[k]
        THEN LowerChars[CHOOSE u \in 1..26 : UpperChars[u] = chars[k]]
        ELSE chars[k]]

\* `token in name`
Contains(name, token) ==
    \E k \in 0..(Len(name) - Len(token)) : SubSeq(name, k + 1, k + Len(token)) = token

\* display_name.get('text', '').lower() if display_name else ''
PlaceName(place) == Lower(place.displayName.text)

Indicators24h ==
    {<<"2", "4">>, <<"n", "o", "n", "s", "t", "o", "p">>, <<"g", "e", "c", "e">>,
     <<"a", "c-cedilla", "dotless-i", "k">>}

Chains24h ==
    {<<"s", "h", "e", "l", "l">>, <<"b", "p">>,
     <<"m", "c", "d", "o", "n", "a", "l", "d", "s">>,
     <<"b", "u", "r", "g", "e", "r", " ", "k", "i", "n", "g">>}

\* The if / elif of the filter: the place is appended at most once per query.
Is24h(place) ==
    \/ \E indicator \in Indicators24h : Contains(PlaceName(place), indicator)
    \/ \E chain \in Chains24h : Contains(PlaceName(place), chain)

RECURSIVE Filter24h(_)
Filter24h(places) ==
    IF places = <<>> THEN <<>>
    ELSE (IF Is24h(Head(places)) THEN <<Head(places)>> ELSE <<>>)
         \o Filter24h(Tail(places))

\* The place types of the six search_nearby calls of one
\* find_emergency_services: three inside search_24h_services, then three.
\* As EmergencyTypes, with a single query for the 24h category.
EmergencyTypes_OneFuelQuery ==
    <<"gas_station", "car_repair", "hospital", "police">>

EmergencyTypes ==
    <<"gas_station", "convenience_store", "restaurant",
      "car_repair", "hospital", "police">>

Types24h == 3    \* len(service_types) in search_24h_services

\* The bucket filled by the call that follows search_24h_services.
BucketOf(k) ==
    IF k = 4 THEN "repair_shops" ELSE IF k = 5 THEN "hospitals" ELSE "police_stations"

EmptyBuckets ==
    ("24h_gas_stations" :> <<>>) @@ ("repair_shops" :> <<>>)
    @@ ("hospitals" :> <<>>) @@ ("police_stations" :> <<>>)

\* As EmergencyResult, with one count taken from the wrong bucket.
EmergencyResult_CopyPaste(a, buckets) ==
    [location |-> [latitude |-> a.latitude, longitude |-> a.longitude],
     search_radius_km |-> a.radius_km,
     emergency_services |-> buckets,
     summary |-> [total_24h_stations |-> Len(buckets["24h_gas_stations"]),
                  total_repair_shops |-> Len(buckets["repair_shops"]),
                  total_hospitals |-> Len(buckets["repair_shops"]),
                  total_police_stations |-> Len(buckets["police_stations"])]]

\* The dict returned by find_emergency_services.
EmergencyResult(a, buckets) ==
    [location |-> [latitude |-> a.latitude, longitude |-> a.longitude],
     search_radius_km |-> a.radius_km,
     emergency_services |-> buckets,
     summary |-> [total_24h_stations |-> Len(buckets["24h_gas_stations"]),
                  total_repair_shops |-> Len(buckets["repair_shops"]),
                  total_hospitals |-> Len(buckets["hospitals"]),
                  total_police_stations |-> Len(buckets["police_stations"])]]

EmergencyOutcomes ==
    {[raise |-> e] : e \in HttpErrors}
    \cup {[json |-> [places |-> q]] :
            q \in {<<>>, <<PlaceA>>, <<PlaceB, PlaceC>>, <<PlaceD, PlaceB, PlaceA>>}}

EmergencyArgs ==
    {[latitude |-> lat, longitude |-> Lon, radius_km |-> 25] : lat \in Lats}

InitEmergency ==
    /\ op = "find_emergency_services"
    /\ args \in EmergencyArgs
    /\ InitCommon

\* The buckets are created empty; search_24h_services starts its loop.
Emergency_Begin ==
    /\ op = "find_emergency_services"
    /\ pc = "start"
    /\ emergency_services' = EmptyBuckets
    /\ idx' = 1
    /\ pc' = "loop"
    /\ UNCHANGED <<clock, routes_client, threads, sent, suspended,
                   args, op, route_response, route_details, route_points,
                   all_services, num_stops, planned_stops, pending, calls, result>>

\* search_nearby(...) number idx is entered.
Emergency_SearchNearby ==
    /\ op = "find_emergency_services"
    /\ pc = "loop"
    /\ ~LoopDone(idx, Len(EmergencyTypes))
    /\ LET q == NearbyQuery(args, args.radius_km * 1000, <<EmergencyTypes[idx]>>)
       IN  /\ pending' = Append(pending, q)
           /\ calls' = Append(calls, CallEvent(q))
    /\ pc' = "search_nearby"
    /\ UNCHANGED <<clock, routes_client, threads, sent, suspended,
                   op, args, route_response, route_details, route_points, idx,
                   all_services, num_stops, planned_stops, emergency_services, result>>

\* It returns. Inside search_24h_services the places are filtered and
\* collected, and its last return fills the first bucket; each later call
\* fills its own bucket.
Emergency_SearchReturned ==
    /\ op = "find_emergency_services"
    /\ pc = "search_nearby"
    /\ \E outcome \in Offered(EmergencyOutcomes, FewPlaceOutcomes) :
        LET places == search_nearby(outcome)
        IN  /\ calls' = Append(calls, ReturnEvent(Head(pending), outcome))
            /\ IF "raise" \in DOMAIN places
               THEN /\ result' = [raise |-> places.raise]
                    /\ pc' = "raised"
                    /\ UNCHANGED <<all_services, emergency_services, idx>>
               ELSE /\ IF idx <= Types24h
                       THEN /\ all_services' = all_services \o Filter24h(places.return)
                            /\ emergency_services' =
                                  IF idx = Types24h
                                  THEN [emergency_services
                                           EXCEPT !["24h_gas_stations"] = all_services']
                                  ELSE emergency_services
                       ELSE /\ emergency_services' =
                                  [emergency_services EXCEPT ![BucketOf(idx)] = places.return]
                            /\ UNCHANGED all_services
                    /\ idx' = idx + 1
                    /\ pc' = "loop"
                    /\ UNCHANGED result
    /\ pending' = Tail(pending)
    /\ UNCHANGED <<clock, routes_client, threads, sent, suspended,
                   op, args, route_response, route_details, route_points,
                   num_stops, planned_stops>>

\* The result is assembled and returned.
Emergency_Return ==
    /\ op = "find_emergency_services"
    /\ pc = "loop"
    /\ LoopDone(idx, Len(EmergencyTypes))
    /\ result' = [return |-> EmergencyResult(args, emergency_services)]
    /\ pc' = "returned"
    /\ UNCHANGED <<clock, routes_client, threads, sent, suspended,
                   op, args, route_response, route_details, route_points, idx,
                   all_services, num_stops, planned_stops, emergency_services,
                   pending, calls>>

NextEmergency ==
    \/ Emergency_Begin
    \/ Emergency_SearchNearby
    \/ Emergency_SearchReturned
    \/ Emergency_Return

SpecEmergency == InitEmergency /\ [][NextEmergency]_vars

(***************************************************************************)
(* interpolate_route_points on its own: a route of up to MaxWaypoints - 1  *)
(* legs and an interval, positive, zero or negative.                       *)
(***************************************************************************)
SamplerRoutes ==
    {Route(w, 454000, <<"1", "8", "3", "0", "0", "s">>) :
        w \in {q \in SeqsUpTo(Lats, MaxWaypoints) : Len(q) >= 2}}

SamplerIntervals ==
    {[num |-> 25000, den |-> 1], [num |-> 50000, den |-> 1], [num |-> 7000, den |-> 1],
     [num |-> 454000, den |-> 3], [num |-> 0, den |-> 1], [num |-> -50000, den |-> 1]}

InitSampler ==
    /\ op = "interpolate_route_points"
    /\ args \in {[route_response |-> [routes |-> rs], interval_km |-> i] :
                    rs \in {<<>>} \cup {<<r>> : r \in SamplerRoutes},
                    i \in SamplerIntervals}
    /\ InitCommon

Sampler_Call ==
    /\ op = "interpolate_route_points"
    /\ pc = "start"
    /\ LET r == interpolate_route_points(args.route_response, args.interval_km)
       IN  /\ result' = r
           /\ IF "raise" \in DOMAIN r
              THEN pc' = "raised" /\ UNCHANGED route_points
              ELSE pc' = "returned" /\ route_points' = r.return
    /\ UNCHANGED <<clock, routes_client, threads, sent, suspended,
                   op, args, route_response, route_details, idx, all_services,
                   num_stops, planned_stops, emergency_services, pending, calls>>

NextSampler == Sampler_Call

SpecSampler == InitSampler /\ [][NextSampler]_vars

(***************************************************************************)
(* The two operations that start with a route query.                       *)
(***************************************************************************)
SpecRouteOps ==
    (InitFindServices \/ InitPlanStops) /\ [][NextFindServices \/ NextPlanStops]_vars

(***************************************************************************)
(* Properties.                                                             *)
(***************************************************************************)
SearchCalls ==
    SelectSeq(calls, LAMBDA e : e.ev = "call" /\ e.query.api = "search_nearby")

SearchReturns ==
    SelectSeq(calls, LAMBDA e : e.ev = "return" /\ e.query.api = "search_nearby")

PlaceEvents ==
    SelectSeq(calls, LAMBDA e : e.query.api # "compute_route")

AnySearchFailed ==
    \E k \in 1..Len(SearchReturns) : "raise" \in DOMAIN SearchReturns[k].outcome

\* The number of stops a returned plan reports.
ReportedStops(plan) ==
    IF "stops_needed" \in DOMAIN plan THEN plan.stops_needed
    ELSE plan.regulation_info.stops_required

\* C1: the list returned by find_services_along_route holds no two records
\* with the same dedup key, every record collected is represented by exactly
\* one entry, and summary.total_services is the length of the list.
C1_NoDuplicateKeys ==
    pc = "returned" =>
        LET found == result.return.services_found
        IN  /\ \A i, j \in 1..Len(found) :
                   DedupKey(found[i]) = DedupKey(found[j]) => i = j
            /\ \A k \in 1..Len(all_services) :
                   Cardinality({i \in 1..Len(found) :
                                   DedupKey(found[i]) = DedupKey(all_services[k])}) = 1
            /\ result.return.summary.total_services = Len(found)

\* C1 witness: a report for which one id came back at two sample points and
\* two records without id had different coordinates of the same "%.6f" text.
C1_Witness ==
    /\ pc = "returned"
    /\ \E i, j \in 1..Len(all_services) :
           /\ all_services[i].id # "" /\ all_services[i].id = all_services[j].id
           /\ all_services[i].search_point # all_services[j].search_point
    /\ \E i, j \in 1..Len(all_services) :
           /\ all_services[i].id = "" /\ all_services[j].id = ""
           /\ all_services[i].location # all_services[j].location
           /\ CoordKey(all_services[i].location) = CoordKey(all_services[j].location)
    /\ Len(result.return.services_found) >= 2

\* C2: for an interval > 0 the sampled points are non-decreasing in
\* distance_from_start.
C2_Monotone ==
    (pc = "returned" /\ args.interval_km.num > 0) =>
        \A k \in 1..(Len(route_points) - 1) :
            DistanceFromStart(route_points[k]) <= DistanceFromStart(route_points[k + 1])

\* C2 witness: a route of two legs sampled into at least five points, the last
\* farther from the start than the first.
C2_Witness ==
    /\ pc = "returned"
    /\ args.interval_km.num > 0
    /\ args.route_response.routes # <<>>
    /\ Len(args.route_response.routes[1].legs) = 2
    /\ Len(route_points) >= 5
    /\ DistanceFromStart(route_points[1]) < DistanceFromStart(route_points[Len(route_points)])

\* C3: the number of stops is max(0, floor(hours / limit)); with a limit of
\* 4.5 h, 300 min give 1 stop, 270 min give 1 stop and 250 min give 0.
C3_StopCount ==
    pc = "returned" =>
        LET seconds == route_details.duration_seconds
            limit == args.driving_hours_limit
            stops == ReportedStops(result.return)
        IN  /\ stops = Max(0, Floor(seconds, 360 * limit))
            /\ (limit = 45 /\ seconds = 18000) => stops = 1
            /\ (limit = 45 /\ seconds = 16200) => stops = 1
            /\ (limit = 45 /\ seconds = 15000) => stops = 0

\* C3 witness: a plan for exactly 270 minutes under a 4.5 h limit, one stop.
C3_Witness ==
    /\ pc = "returned"
    /\ args.driving_hours_limit = 45
    /\ route_details.duration_seconds = 16200
    /\ ReportedStops(result.return) = 1

C5_SequentialInOrder ==
    /\ Len(pending) <= 1
    /\ \A p \in 1..Len(calls) :
           IF calls[p].ev = "call"
           THEN IF p = Len(calls)
                THEN pending = <<calls[p].query>>
                ELSE calls[p + 1].ev = "return" /\ calls[p + 1].query = calls[p].query
           ELSE p = Len(calls) => pending = <<>>
    /\ Len(SearchCalls) <= Len(route_points)
    /\ \A k \in 1..Len(SearchCalls) :
           /\ SearchCalls[k].query.latitude = route_points[k].latitude
           /\ SearchCalls[k].query.longitude = route_points[k].longitude
    /\ pc = "returned" => Len(SearchCalls) = Len(route_points)

\* C5 witness: a finished call over three sampled points, three searches.
C5_Witness ==
    /\ pc = "returned"
    /\ Len(route_points) = 3
    /\ Len(SearchReturns) = 3
    /\ route_points[1].latitude # route_points[3].latitude

\* C6: a plan with stopsNeeded = 0 is returned right after the route query:
\* nothing is sampled and no place query is issued.
C6_NoStopNoQueries ==
    (pc = "returned" /\ ReportedStops(result.return) = 0) =>
        /\ route_points = <<>>
        /\ Len(calls) = 2
        /\ calls[1].ev = "call" /\ calls[1].query.api = "compute_route"
        /\ calls[2].ev = "return" /\ calls[2].query.api = "compute_route"
        /\ pending = <<>>

\* C6 witness: stopsNeeded = 0 for a route whose leg has both end points, so
\* that sampling it would have produced points.
C6_Witness ==
    /\ pc = "returned"
    /\ ReportedStops(result.return) = 0
    /\ Len(RawRoutePoints(route_response.routes[1].legs)) = 2

\* C7: the result of find_emergency_services holds the four fixed categories,
\* each a list, and each summary count is the length of its list.
C7_FourCategories ==
    pc = "returned" =>
        LET buckets == result.return.emergency_services
            summary == result.return.summary
        IN  /\ DOMAIN buckets = {"24h_gas_stations", "repair_shops",
                                 "hospitals", "police_stations"}
            /\ \A b \in DOMAIN buckets : DOMAIN buckets[b] = 1..Len(buckets[b])
            /\ summary.total_24h_stations = Len(buckets["24h_gas_stations"])
            /\ summary.total_repair_shops = Len(buckets["repair_shops"])
            /\ summary.total_hospitals = Len(buckets["hospitals"])
            /\ summary.total_police_stations = Len(buckets["police_stations"])
            /\ summary.total_24h_stations >= 0 /\ summary.total_repair_shops >= 0
            /\ summary.total_hospitals >= 0 /\ summary.total_police_stations >= 0

\* C7 witness: a result with an empty category (its query failed) beside
\* non-empty ones of different lengths.
C7_Witness ==
    /\ pc = "returned"
    /\ AnySearchFailed
    /\ result.return.emergency_services["hospitals"] = <<>>
    /\ Len(result.return.emergency_services["repair_shops"]) = 3
    /\ Len(result.return.emergency_services["24h_gas_stations"]) >= 2

RECURSIVE StampsOfReturns(_, _)
StampsOfReturns(returns, k) ==
    IF k > Len(returns) THEN <<>>
    ELSE (IF "json" \in DOMAIN returns[k].outcome
          THEN StampAll(returns[k].outcome.json.places, route_points[k])
          ELSE <<>>)
         \o StampsOfReturns(returns, k + 1)

RouteReplied == Len(calls) >= 2 /\ calls[2].ev = "return"

\* C9: a route response without routes makes get_route_details raise, and
\* both operations fail with that error before any place query.
C9_NoRouteRaises ==
    (/\ RouteReplied
     /\ "json" \in DOMAIN calls[2].outcome
     /\ calls[2].outcome.json.routes = <<>>) =>
        /\ pc = "raised"
        /\ result = [raise |-> "ValueError"]
        /\ PlaceEvents = <<>>
        /\ pending = <<>>

\* C9 witness: find_services_along_route failed on a response without routes.
C9_Witness ==
    /\ op = "find_services_along_route"
    /\ RouteReplied
    /\ "json" \in DOMAIN calls[2].outcome
    /\ calls[2].outcome.json.routes = <<>>
    /\ result = [raise |-> "ValueError"]

LegLength(leg) ==
    calculate_distance(leg.startLocation.latitude, leg.startLocation.longitude,
                       leg.endLocation.latitude, leg.endLocation.longitude)

SingleLegSampled ==
    /\ op = "interpolate_route_points"
    /\ pc = "returned"
    /\ args.route_response.routes # <<>>
    /\ Len(args.route_response.routes[1].legs) = 1
    /\ args.interval_km.num > 0

\* C11: for a route of a single leg of length d and an interval k > 0 the
\* sampler returns max(1, floor(d / k)) + 1 points, the first at the leg start
\* with distance 0 and the last at the leg end with distance d; with k > d
\* these are the two points start and end.
C11_SingleLegCount ==
    SingleLegSampled =>
        LET leg == args.route_response.routes[1].legs[1]
            k == args.interval_km
            d == LegLength(leg)
            n == Max(1, Floor(d * k.den, k.num)) + 1
        IN  /\ Len(route_points) = n
            /\ route_points[1] = [latitude |-> leg.startLocation.latitude,
                                  longitude |-> leg.startLocation.longitude,
                                  distance_from_start |-> 0]
            /\ route_points[n] = [latitude |-> leg.endLocation.latitude,
                                  longitude |-> leg.endLocation.longitude,
                                  distance_from_start |-> d]
            /\ (k.num > d * k.den) => n = 2

\* The same statement for the legs whose four coordinates are all non-zero.
C11_NonZeroLegCount ==
    (/\ SingleLegSampled
     /\ LET leg == args.route_response.routes[1].legs[1]
        IN  /\ leg.startLocation.latitude # 0 /\ leg.startLocation.longitude # 0
            /\ leg.endLocation.latitude # 0 /\ leg.endLocation.longitude # 0)
    => C11_SingleLegCount

PlanReturned ==
    /\ op = "plan_driver_stops"
    /\ pc = "returned"
    /\ "planned_stops" \in DOMAIN result.return

\* route_details["duration_minutes"] of a route that lasts whole minutes.
WholeMinutes(details) == details.duration_minutes.num \div details.duration_minutes.den

\* C12 as stated: the estimated arrival time of every stop is exactly
\* (planned_distance_km / distance_km) * duration_minutes.
C12_ArrivalExact ==
    PlanReturned =>
        \A k \in 1..Len(result.return.planned_stops) :
            LET stop == result.return.planned_stops[k]
                planned == stop.planned_distance_km
            IN  stop.estimated_arrival_time * planned.den * route_details.distance_km
                    = planned.num * WholeMinutes(route_details)

\* C12 amended: the estimated arrival time of every stop is
\* (planned_distance_km / distance_km) * duration_minutes rounded to the
\* nearest whole minute, a tie going to the even one; it is computed from the
\* planned distance, never from actual_distance_km.
C12_ArrivalRounded ==
    PlanReturned =>
        \A k \in 1..Len(result.return.planned_stops) :
            LET stop == result.return.planned_stops[k]
                planned == stop.planned_distance_km
                x_num == planned.num * WholeMinutes(route_details)
                x_den == planned.den * route_details.distance_km
                off == Abs(stop.estimated_arrival_time * x_den - x_num)
            IN  /\ 2 * off <= x_den
                /\ 2 * off = x_den => stop.estimated_arrival_time % 2 = 0

\* C12 witness: a stop planned at 227 km and snapped to a point 55.596 km from
\* the start, on a route of 305 minutes: 152.5 minutes, reported as 152.
C12_Witness ==
    /\ PlanReturned
    /\ route_details.duration_seconds = 18300
    /\ \E k \in 1..Len(result.return.planned_stops) :
           LET stop == result.return.planned_stops[k]
           IN  /\ stop.planned_distance_km = [num |-> 454000, den |-> 2]
               /\ stop.actual_distance_km = 55596
               /\ stop.estimated_arrival_time = 152

(***************************************************************************)
(* Two invocations on one DriverAssistant. Every variable above is a local *)
(* variable of the method that runs; the object itself holds the two       *)
(* clients and nothing else. The invocation that does not run keeps its    *)
(* locals in `suspended`; a thread switch exchanges the two.               *)
(***************************************************************************)
LocalFrame ==
    [op |-> op, args |-> args, pc |-> pc, route_response |-> route_response,
     route_details |-> route_details, route_points |-> route_points, idx |-> idx,
     all_services |-> all_services, num_stops |-> num_stops,
     planned_stops |-> planned_stops, emergency_services |-> emergency_services,
     pending |-> pending, calls |-> calls, result |-> result]

FreshFrame(o, a) ==
    [op |-> o, args |-> a, pc |-> "start", route_response |-> None,
     route_details |-> None, route_points |-> <<>>, idx |-> 0,
     all_services |-> <<>>, num_stops |-> 0, planned_stops |-> <<>>,
     emergency_services |-> None, pending |-> <<>>, calls |-> <<>>, result |-> None]

FreshFrames ==
    {FreshFrame("find_services_along_route", a) : a \in FindServicesArgs}
    \cup {FreshFrame("plan_driver_stops", a) :
             a \in {b \in PlanStopsArgs : b.driving_hours_limit = 45}}
    \cup {FreshFrame("find_emergency_services", a) :
             a \in {b \in EmergencyArgs : b.latitude = 410000000}}

\* As Resume, with all_services kept on the object instead of in the method:
\* the resumed invocation finds the list of the one that just ran.
Resume_SharedServices(frame, running) ==
    [frame EXCEPT !.all_services = running.all_services]

\* What the resumed invocation finds in its variables: what it left there.
Resume(frame, running) == frame

InitTwoInvocations ==
    /\ \E f \in FreshFrames : op = f.op /\ args = f.args
    /\ InitLocals
    /\ suspended \in FreshFrames
    /\ NoPacing

\* The interpreter switches from the running invocation to the other one.
Switch ==
    /\ suspended # None
    /\ LET f == Resume(suspended, LocalFrame)
       IN  /\ op' = f.op
           /\ args' = f.args
           /\ pc' = f.pc
           /\ route_response' = f.route_response
           /\ route_details' = f.route_details
           /\ route_points' = f.route_points
           /\ idx' = f.idx
           /\ all_services' = f.all_services
           /\ num_stops' = f.num_stops
           /\ planned_stops' = f.planned_stops
           /\ emergency_services' = f.emergency_services
           /\ pending' = f.pending
           /\ calls' = f.calls
           /\ result' = f.result
    /\ suspended' = LocalFrame
    /\ UNCHANGED <<clock, routes_client, threads, sent>>

NextTwoInvocations ==
    \/ NextFindServices
    \/ NextPlanStops
    \/ NextEmergency
    \/ Switch

SpecTwoInvocations == InitTwoInvocations /\ [][NextTwoInvocations]_vars

\* The provider responses an invocation received, in order.
Received(log) ==
    LET returns == SelectSeq(log, LAMBDA e : e.ev = "return")
    IN  [k \in 1..Len(returns) |-> returns[k].outcome]

RECURSIVE ReplaySearches(_, _, _)
ReplaySearches(points, outcomes, k) ==
    IF k > Len(points) THEN <<>>
    ELSE StampAll(search_nearby(outcomes[k + 1]).return, points[k])
         \o ReplaySearches(points, outcomes, k + 1)

\* The report of a find_services_along_route that returned, from its
\* arguments and the responses it received alone.
ReplayFindServices(a, outcomes) ==
    LET response == compute_route(outcomes[1]).return
        details == get_route_details(response).return
        points == interpolate_route_points(response, a.interval_km).return
    IN  ServicesReport(a, details, points, ReplaySearches(points, outcomes, 1))

\* The same for plan_driver_stops.
ReplayPlanStops(a, outcomes) ==
    LET response == compute_route(outcomes[1]).return
        details == get_route_details(response).return
        n == NumStops(details, a.driving_hours_limit).return
        points == interpolate_route_points(response, StopInterval(details, n)).return
    IN  IF NoStopNeeded(n) THEN NoStopsResult(details)
        ELSE StopsPlan(a, details, n,
                 [k \in 1..n |->
                     PlannedStop(details, n, k,
                                 ClosestPoint(points, StopDistance(details, n, k)),
                                 search_truck_friendly_places(outcomes[k + 1]).return)])

\* The same for find_emergency_services.
ReplayEmergency(a, outcomes) ==
    LET places(k) == search_nearby(outcomes[k]).return
    IN  EmergencyResult(a,
            ("24h_gas_stations" :> (Filter24h(places(1)) \o Filter24h(places(2))
                                    \o Filter24h(places(3))))
            @@ ("repair_shops" :> places(4))
            @@ ("hospitals" :> places(5))
            @@ ("police_stations" :> places(6)))

Replay(frame) ==
    IF frame.op = "find_services_along_route"
    THEN ReplayFindServices(frame.args, Received(frame.calls))
    ELSE IF frame.op = "plan_driver_stops"
    THEN ReplayPlanStops(frame.args, Received(frame.calls))
    ELSE ReplayEmergency(frame.args, Received(frame.calls))

Isolated(frame) ==
    frame.pc = "returned" => frame.result = [return |-> Replay(frame)]

C14_NonPositiveIntervalFails ==
    (op = "interpolate_route_points" /\ pc # "start" /\ args.interval_km.num <= 0) =>
        /\ pc = "raised"
        /\ "raise" \in DOMAIN result

(***************************************************************************)
(* GoogleRoutesClient._rate_limit, called at the start of compute_route.   *)
(* A thread reads the clock and last_request_time, sleeps if it must, and  *)
(* records the time of its request.                                        *)
(***************************************************************************)
MaxRequests == 3    \* calls of _rate_limit by one thread

MaxElapsed == 7     \* ticks the clock advances

IdleThread == [pc |-> "idle", requests |-> 0, time_since_last |-> 0,
               sleep_time |-> 0, wake_at |-> 0]

\* As SleepTime, sleeping the time elapsed instead of the remainder.
SleepTime_Elapsed(min_interval, time_since_last) == time_since_last

\* sleep_time = self.min_interval - time_since_last
SleepTime(min_interval, time_since_last) == min_interval - time_since_last

\* current_time = time.time(); time_since_last = ...; the test; time.sleep is
\* entered, or skipped.
RateLimit_Enter(t) ==
    /\ threads[t].pc = "idle"
    /\ threads[t].requests < MaxRequests
    /\ LET current_time == clock
           time_since_last == current_time - routes_client.last_request_time
       IN  IF time_since_last < routes_client.min_interval
           THEN LET sleep_time == SleepTime(routes_client.min_interval, time_since_last)
                IN  threads' = [threads EXCEPT ![t] =
                        [@ EXCEPT !.pc = "sleeping",
                                  !.time_since_last = time_since_last,
                                  !.sleep_time = sleep_time,
                                  !.wake_at = clock + sleep_time]]
           ELSE threads' = [threads EXCEPT ![t] =
                        [@ EXCEPT !.pc = "awake",
                                  !.time_since_last = time_since_last,
                                  !.sleep_time = 0,
                                  !.wake_at = clock]]
    /\ UNCHANGED <<clock, routes_client, sent>>

\* time.sleep(sleep_time) returns, at the requested time or later.
RateLimit_Wake(t) ==
    /\ threads[t].pc = "sleeping"
    /\ clock >= threads[t].wake_at
    /\ threads' = [threads EXCEPT ![t].pc = "awake"]
    /\ UNCHANGED <<clock, routes_client, sent>>

\* self.last_request_time = time.time(); the request follows.
RateLimit_Record(t) ==
    /\ threads[t].pc = "awake"
    /\ routes_client' = [routes_client EXCEPT !.last_request_time = clock]
    /\ sent' = Append(sent, [thread |-> t, time |-> clock,
                             slept |-> threads[t].sleep_time])
    /\ threads' = [threads EXCEPT ![t].pc = "idle", ![t].requests = @ + 1]
    /\ UNCHANGED clock

\* Time passes.
Tick ==
    /\ clock < Epoch + MaxElapsed
    /\ clock' = clock + 1
    /\ UNCHANGED <<routes_client, threads, sent>>

InitRateLimit ==
    /\ op = "compute_route"
    /\ args = None
    /\ InitLocals
    /\ suspended = None
    /\ clock = Epoch
    /\ routes_client = FreshRoutesClient
    /\ threads = <<IdleThread>>
    /\ sent = <<>>

NextRateLimit ==
    \/ /\ \E t \in DOMAIN threads :
              RateLimit_Enter(t) \/ RateLimit_Wake(t) \/ RateLimit_Record(t)
       /\ UNCHANGED <<op, args, pc, route_response, route_details, route_points, idx,
                      all_services, num_stops, planned_stops, emergency_services,
                      pending, calls, result, suspended>>
    \/ /\ Tick
       /\ UNCHANGED <<op, args, pc, route_response, route_details, route_points, idx,
                      all_services, num_stops, planned_stops, emergency_services,
                      pending, calls, result, suspended>>

SpecRateLimit == InitRateLimit /\ [][NextRateLimit]_vars

\* C15: called from one thread, _rate_limit does not sleep when min_interval
\* or more has passed since the recorded time of the last request (so not on
\* the first call of a fresh client) and sleeps for the remainder otherwise;
\* two consecutive recorded request times are min_interval or more apart.
C15_PacedRequests ==
    /\ \A t \in DOMAIN threads :
           /\ threads[t].pc = "sleeping" =>
                  /\ threads[t].time_since_last < routes_client.min_interval
                  /\ threads[t].time_since_last + threads[t].sleep_time
                         = routes_client.min_interval
           /\ threads[t].pc = "awake" =>
                  (threads[t].sleep_time = 0
                      <=> threads[t].time_since_last >= routes_client.min_interval)
    /\ Len(sent) >= 1 => sent[1].slept = 0
    /\ \A k \in 1..(Len(sent) - 1) :
           sent[k + 1].time - sent[k].time >= routes_client.min_interval

\* C15 witness: a first request without sleep, a second one called at once
\* and recorded min_interval later, a third one called later than that and
\* not delayed.
C15_Witness ==
    /\ Len(sent) = 3
    /\ sent[1].time = Epoch /\ sent[1].slept = 0
    /\ sent[2].time = sent[1].time + routes_client.min_interval
    /\ sent[2].slept = routes_client.min_interval
    /\ sent[3].slept = 0

TruckCalls ==
    SelectSeq(calls, LAMBDA e : e.ev = "call"
                                /\ e.query.api = "search_truck_friendly_places")

TruckReturns ==
    SelectSeq(calls, LAMBDA e : e.ev = "return"
                                /\ e.query.api = "search_truck_friendly_places")

\* The records a provider response carried.
PlacesOf(outcome) ==
    IF "json" \in DOMAIN outcome THEN outcome.json.places ELSE <<>>

EmergencyReturned ==
    /\ op = "find_emergency_services"
    /\ pc = "returned"

\* C17 as stated: one call of find_emergency_services issues exactly four
\* queries against the place-search provider.
C17_FourQueries ==
    EmergencyReturned => Len(SearchCalls) = 4

\* C17 amended: one call of find_emergency_services issues exactly six
\* search_nearby queries at the given point and radius, one place type each:
\* gas_station, convenience_store and restaurant for the 24h category, then
\* car_repair, hospital and police.
C17_SixQueries ==
    EmergencyReturned =>
        /\ [k \in 1..Len(SearchCalls) |-> SearchCalls[k].query.place_types]
               = << <<"gas_station">>, <<"convenience_store">>, <<"restaurant">>,
                    <<"car_repair">>, <<"hospital">>, <<"police">> >>
        /\ \A k \in 1..Len(SearchCalls) :
               /\ SearchCalls[k].query.latitude = args.latitude
               /\ SearchCalls[k].query.longitude = args.longitude
               /\ SearchCalls[k].query.radius_meters = args.radius_km * 1000
        /\ Len(calls) = 12

\* C17 witness: a result whose 24h category holds places found by the
\* gas_station query and by the restaurant query.
C17_Witness ==
    /\ EmergencyReturned
    /\ Len(SearchReturns) = 6
    /\ PlacesOf(SearchReturns[1].outcome) = <<PlaceA>>
    /\ PlacesOf(SearchReturns[2].outcome) = <<>>
    /\ PlacesOf(SearchReturns[3].outcome) = <<PlaceB, PlaceC>>
    /\ result.return.emergency_services["24h_gas_stations"] = <<PlaceA, PlaceC>>

FindServicesReturned ==
    /\ op = "find_services_along_route"
    /\ pc = "returned"

\* The sample points, by number, whose response carried a record with this key.
PointsReturning(key) ==
    {p \in 1..Len(SearchReturns) :
        \E j \in 1..Len(PlacesOf(SearchReturns[p].outcome)) :
            DedupKey(PlacesOf(SearchReturns[p].outcome)[j]) = key}

\* The first record with this key in the response for point p.
FirstWithKey(p, key) ==
    LET places == PlacesOf(SearchReturns[p].outcome)
        j == CHOOSE i \in 1..Len(places) :
                 /\ DedupKey(places[i]) = key
                 /\ \A m \in 1..(i - 1) : DedupKey(places[m]) # key
    IN  places[j]

\* C18: of the records with one dedup key, services_found keeps the one
\* returned at the earliest queried point, with the stamp of that point, which
\* is the smallest distance_from_start among the points that returned the key;
\* the later duplicates and their metadata are dropped.
C18_FirstOccurrenceWins ==
    FindServicesReturned =>
        \A n \in 1..Len(result.return.services_found) :
            LET kept == result.return.services_found[n]
                key == DedupKey(kept)
                first == CHOOSE p \in PointsReturning(key) :
                             \A q \in PointsReturning(key) : p <= q
                record == FirstWithKey(first, key)
            IN  /\ PointsReturning(key) # {}
                /\ kept.id = record.id
                /\ kept.displayName = record.displayName
                /\ kept.location = record.location
                /\ kept.types = record.types
                /\ kept.search_point =
                       [latitude |-> route_points[first].latitude,
                        longitude |-> route_points[first].longitude,
                        distance_from_start |-> DistanceFromStart(route_points[first])]
                /\ \A q \in PointsReturning(key) :
                       kept.search_point.distance_from_start
                           <= DistanceFromStart(route_points[q])

\* C18 witness: two different records with one key were returned at two
\* points, the second farther along the route; the report holds the first.
C18_Witness ==
    /\ FindServicesReturned
    /\ \E n \in 1..Len(result.return.services_found) :
           LET kept == result.return.services_found[n]
               key == DedupKey(kept)
           IN  \E p, q \in PointsReturning(key) :
                   /\ p < q
                   /\ DistanceFromStart(route_points[p]) < DistanceFromStart(route_points[q])
                   /\ FirstWithKey(p, key) # FirstWithKey(q, key)
                   /\ kept.displayName = FirstWithKey(p, key).displayName
                   /\ kept.search_point.distance_from_start
                          = DistanceFromStart(route_points[p])

\* The position at which a key was first entered in the dedup set: that of
\* its first record among the records received, in query order.
InsertionRank(key) ==
    LET received == StampsOfReturns(SearchReturns, 1)
    IN  CHOOSE k \in 1..Len(received) :
            /\ DedupKey(received[k]) = key
            /\ \A m \in 1..(k - 1) : DedupKey(received[m]) # key

\* C19: services_found is sorted ascending by the search point's
\* distance_from_start, and records of equal distance are in the order in
\* which they were first entered in the dedup set.
C19_SortedStable ==
    FindServicesReturned =>
        LET found == result.return.services_found
        IN  \A i, j \in 1..Len(found) :
                i < j =>
                    LET di == found[i].search_point.distance_from_start
                        dj == found[j].search_point.distance_from_start
                    IN  /\ di <= dj
                        /\ di = dj => InsertionRank(DedupKey(found[i]))
                                          < InsertionRank(DedupKey(found[j]))

\* C19 witness: a report with two records of one sample point and a third
\* one of a point farther along the route.
C19_Witness ==
    /\ FindServicesReturned
    /\ LET found == result.return.services_found
       IN  /\ Len(found) >= 3
           /\ found[1].search_point = found[2].search_point
           /\ found[2].search_point.distance_from_start
                  < found[3].search_point.distance_from_start

\* The positions <<record, index>> of all type entries of a list of records.
TypeEntries(services) ==
    UNION {{<<k, m>> : m \in 1..Len(services[k].types)} : k \in 1..Len(services)}

RECURSIVE SumOfCounts(_, _)
SumOfCounts(counts, keys) ==
    IF keys = {} THEN 0
    ELSE LET t == CHOOSE x \in keys : TRUE
         IN  counts[t] + SumOfCounts(counts, keys \ {t})

\* C20: services_by_type[t] is the number of occurrences of t in the types
\* lists of the records of services_found (a type that does not occur has no
\* bucket), so a record with N types counts in N buckets and the counts add
\* up to the total length of the types lists.
C20_TypeHistogram ==
    FindServicesReturned =>
        LET found == result.return.services_found
            by_type == result.return.summary.services_by_type
            occurrences(t) ==
                Cardinality({e \in TypeEntries(found) : found[e[1]].types[e[2]] = t})
        IN  /\ \A e \in TypeEntries(found) : found[e[1]].types[e[2]] \in DOMAIN by_type
            /\ \A t \in DOMAIN by_type :
                   by_type[t] = occurrences(t) /\ by_type[t] >= 1
            /\ SumOfCounts(by_type, DOMAIN by_type) = Cardinality(TypeEntries(found))

\* C20 witness: a report with a record of two types beside a record of one
\* of these types.
C20_Witness ==
    /\ FindServicesReturned
    /\ \E k \in 1..Len(result.return.services_found) :
           result.return.services_found[k].types = <<"gas_station", "restaurant">>
    /\ result.return.summary.services_by_type["gas_station"] = 2
    /\ result.return.summary.services_by_type["restaurant"] = 1
    /\ Len(result.return.services_found) = 2

(***************************************************************************)
(* Snapping of the planned stops to the sampled points.                    *)
(***************************************************************************)
\* |distance_from_start - i * stop_interval_km| of sample k for stop i, times
\* num_stops + 1.
Deviation(k, i) ==
    Abs(DistanceFromStart(route_points[k]) * (num_stops + 1)
        - i * route_details.distance_km)

\* The samples that minimise the deviation for stop i.
Nearest(i) ==
    {k \in 1..Len(route_points) :
        \A m \in 1..Len(route_points) : Deviation(k, i) <= Deviation(m, i)}

\* The earliest of a non-empty set of positions.
Earliest(S) == CHOOSE k \in S : \A m \in S : k <= m

\* C21: stop i is placed at the sampled point that minimises
\* |distance_from_start - i * stop_interval_km|, the first such point of the
\* sampled list when several attain the minimum; location and
\* actual_distance_km are those of that point.
C21_FirstNearestSample ==
    PlanReturned =>
        \A i \in 1..Len(result.return.planned_stops) :
            LET stop == result.return.planned_stops[i]
                p == route_points[Earliest(Nearest(i))]
            IN  /\ Nearest(i) # {}
                /\ stop.location = [latitude |-> p.latitude, longitude |-> p.longitude]
                /\ stop.actual_distance_km = DistanceFromStart(p)

\* C21 witness: a plan with a stop that two samples at different distances
\* are equally near to.
C21_Witness ==
    /\ PlanReturned
    /\ \E i \in 1..Len(result.return.planned_stops) :
           \E k, m \in Nearest(i) :
               /\ DistanceFromStart(route_points[k]) # DistanceFromStart(route_points[m])
               /\ result.return.planned_stops[i].actual_distance_km
                      = DistanceFromStart(route_points[Earliest({k, m})])

\* C22: the stops of a returned plan are numbered 1..stopsNeeded in order and
\* stop i is planned at i * distance_km / (stopsNeeded + 1): the planned
\* distances are equally spaced, strictly increasing and strictly less than
\* the route distance.
C22_EquallySpacedStops ==
    PlanReturned =>
        LET stops == result.return.planned_stops
            n == result.return.regulation_info.stops_required
            distance_km == result.return.route_info.total_distance_km
        IN  /\ Len(stops) = n
            /\ \A i \in 1..n :
                   /\ stops[i].stop_number = i
                   /\ stops[i].planned_distance_km.den > 0
                   /\ stops[i].planned_distance_km.num * (n + 1)
                          = i * distance_km * stops[i].planned_distance_km.den
                   /\ stops[i].planned_distance_km.num
                          < distance_km * stops[i].planned_distance_km.den
            /\ \A i \in 1..(n - 1) :
                   stops[i].planned_distance_km.num * stops[i + 1].planned_distance_km.den
                       < stops[i + 1].planned_distance_km.num * stops[i].planned_distance_km.den

\* C22 witness: a plan of three stops.
C22_Witness ==
    /\ PlanReturned
    /\ Len(result.return.planned_stops) = 3
    /\ result.return.planned_stops[3].stop_number = 3
    /\ result.return.planned_stops[3].planned_distance_km.num
           > result.return.planned_stops[2].planned_distance_km.num

\* The start and the end of every leg, in leg order.
RECURSIVE LegEnds(_)
LegEnds(legs) ==
    IF legs = <<>> THEN <<>>
    ELSE <<[latitude |-> Head(legs).startLocation.latitude,
            longitude |-> Head(legs).startLocation.longitude],
           [latitude |-> Head(legs).endLocation.latitude,
            longitude |-> Head(legs).endLocation.longitude]>>
         \o LegEnds(Tail(legs))

\* C23: for a route whose leg coordinates are within the valid ranges, 0
\* included, the raw point list holds the start and the end of every leg in
\* leg order, so the first sampled point is the first leg's start and the last
\* sampled point is the last leg's end.
C23_EveryLegEndSampled ==
    (/\ op = "interpolate_route_points"
     /\ pc = "returned"
     /\ args.route_response.routes # <<>>
     /\ args.interval_km.num > 0) =>
        LET legs == args.route_response.routes[1].legs
            ends == LegEnds(legs)
        IN  /\ RawRoutePoints(legs) = ends
            /\ Len(route_points) >= 2
            /\ route_points[1].latitude = ends[1].latitude
            /\ route_points[1].longitude = ends[1].longitude
            /\ route_points[Len(route_points)].latitude = ends[Len(ends)].latitude
            /\ route_points[Len(route_points)].longitude = ends[Len(ends)].longitude

\* C24: every record of services_found carries a search-point stamp equal to
\* one of the sampled points and a distance_from_route equal to the distance
\* between that point and the record's location.
C24_BothDerivedFields ==
    FindServicesReturned =>
        \A k \in 1..Len(result.return.services_found) :
            LET record == result.return.services_found[k]
            IN  /\ "search_point" \in DOMAIN record
                /\ \E p \in 1..Len(route_points) :
                       record.search_point
                           = [latitude |-> route_points[p].latitude,
                              longitude |-> route_points[p].longitude,
                              distance_from_start |-> DistanceFromStart(route_points[p])]
                /\ "distance_from_route" \in DOMAIN record
                /\ record.distance_from_route
                       = calculate_distance(record.search_point.latitude,
                                            record.search_point.longitude,
                                            record.location.latitude,
                                            record.location.longitude)

\* C25: in a returned plan actual_distance_km never decreases with
\* stop_number, and the sample of a later stop is never earlier in the sampled
\* list than the sample of an earlier stop.
C25_SnappedInRouteOrder ==
    PlanReturned =>
        \A i, j \in 1..Len(result.return.planned_stops) :
            i < j =>
                /\ result.return.planned_stops[i].actual_distance_km
                       <= result.return.planned_stops[j].actual_distance_km
                /\ Earliest(Nearest(i)) <= Earliest(Nearest(j))

\* C25 witness: a plan with a stop that lies farther along the route than the
\* stop before it, which is not at the origin.
C25_Witness ==
    /\ PlanReturned
    /\ \E i \in 1..(Len(result.return.planned_stops) - 1) :
           /\ result.return.planned_stops[i].actual_distance_km > 0
           /\ result.return.planned_stops[i].actual_distance_km
                  < result.return.planned_stops[i + 1].actual_distance_km

\* C26: no stop of a returned plan is snapped to the first or the last sampled
\* point: actual_distance_km is strictly between 0 and the sampled length,
\* and no two stops share a location.
C26_StopsStrictlyInside ==
    PlanReturned =>
        LET stops == result.return.planned_stops
            sampled_length == DistanceFromStart(route_points[Len(route_points)])
        IN  /\ \A i \in 1..Len(stops) :
                   /\ stops[i].actual_distance_km > 0
                   /\ stops[i].actual_distance_km < sampled_length
            /\ \A i, j \in 1..Len(stops) :
                   i # j => stops[i].location # stops[j].location

(***************************************************************************)
(* plan_driver_stops run to completion: every step of the call is taken,   *)
(* and every provider request is answered or fails (timeout=30).           *)
(***************************************************************************)
SpecPlanStopsFair ==
    InitPlanStops /\ [][NextPlanStops]_vars /\ WF_vars(NextPlanStops)

\* The call has found that num_stops >= 1 stops are needed.
StopsNeeded ==
    /\ op = "plan_driver_stops"
    /\ pc \notin {"start", "compute_route"}
    /\ num_stops >= 1

\* One route query, answered before the first place query; then one place
\* query per stop, in stop order, each answered before the next is issued.
C27_QueriesInOrder ==
    /\ Len(pending) <= 1
    /\ Len(calls) >= 1 => calls[1] = CallEvent(RouteQuery(args))
    /\ Len(calls) >= 2 => calls[2].ev = "return" /\ calls[2].query = calls[1].query
    /\ \A p \in 3..Len(calls) :
           /\ calls[p].query.api = "search_truck_friendly_places"
           /\ IF p % 2 = 1
              THEN calls[p].ev = "call"
              ELSE calls[p].ev = "return" /\ calls[p].query = calls[p - 1].query
    /\ Len(TruckCalls) <= num_stops
    /\ \A k \in 1..Len(TruckCalls) :
           LET p == route_points[Earliest(Nearest(k))]
           IN  /\ TruckCalls[k].query.latitude = p.latitude
               /\ TruckCalls[k].query.longitude = p.longitude

\* C27: a call that needs n >= 1 stops issues one route query, answered
\* before any place query, then n place queries, one per stop in stop order
\* and one at a time, and then returns the plan.
C27_OneRouteQueryThenNStopQueries ==
    /\ [](op = "plan_driver_stops" => C27_QueriesInOrder)
    /\ StopsNeeded ~> (/\ PlanReturned
                       /\ Len(TruckCalls) = num_stops
                       /\ Len(TruckReturns) = num_stops
                       /\ Len(result.return.planned_stops) = num_stops)

(***************************************************************************)
(* Two threads calling compute_route on one GoogleRoutesClient: _rate_limit *)
(* takes no lock, so the steps of the two calls interleave freely.         *)
(***************************************************************************)
InitTwoThreads ==
    /\ op = "compute_route"
    /\ args = None
    /\ InitLocals
    /\ suspended = None
    /\ clock = Epoch
    /\ routes_client = FreshRoutesClient
    /\ threads = <<IdleThread, IdleThread>>
    /\ sent = <<>>

SpecTwoThreads == InitTwoThreads /\ [][NextRateLimit]_vars

\* C28: under every interleaving of the _rate_limit steps of two threads,
\* requests are sent at least min_interval apart.
C28_ConcurrentRequestsPaced ==
    \A k \in 1..(Len(sent) - 1) :
        sent[k + 1].thread # sent[k].thread =>
            sent[k + 1].time - sent[k].time >= routes_client.min_interval

\* C29: a place, identified by its id, is at most once in the
\* 24h_gas_stations bucket, the list returned by search_24h_services, so
\* total_24h_stations counts distinct places.
C29_Distinct24hPlaces ==
    EmergencyReturned =>
        LET stations == result.return.emergency_services["24h_gas_stations"]
        IN  /\ \A i, j \in 1..Len(stations) :
                   (i # j /\ stations[i].id # "") => stations[i].id # stations[j].id
            /\ result.return.summary.total_24h_stations
                   = Cardinality({stations[k] : k \in 1..Len(stations)})

(***************************************************************************)
(* GooglePlacesClient.search_adblue_stations. The two non-ASCII letters of *)
(* the Turkish indicator are written "g-breve" and "dotless-i".            *)
(***************************************************************************)
adblue_indicators ==
    {<<"a", "d", "b", "l", "u", "e">>, <<"a", "d", " ", "b", "l", "u", "e">>,
     <<"d", "e", "f">>,
     <<"d", "i", "e", "s", "e", "l", " ", "e", "x", "h", "a", "u", "s", "t", " ",
       "f", "l", "u", "i", "d">>,
     <<"t", "r", "u", "c", "k">>, <<"k", "a", "m", "y", "o", "n">>,
     <<"a", "g-breve", "dotless-i", "r", " ", "v", "a", "s", "dotless-i", "t", "a">>,
     <<"c", "o", "m", "m", "e", "r", "c", "i", "a", "l">>}

major_brands ==
    {<<"s", "h", "e", "l", "l">>, <<"b", "p">>, <<"t", "o", "t", "a", "l">>,
     <<"o", "p", "e", "t">>,
     <<"p", "e", "t", "r", "o", "l", " ", "o", "f", "i", "s", "i">>,
     <<"l", "u", "k", "o", "i", "l">>}

\* One iteration of `for station in gas_stations`: two independent if
\* statements, each appending the station.
AdBlueEntries(station) ==
    (IF \E indicator \in adblue_indicators : Contains(PlaceName(station), indicator)
     THEN <<station>> ELSE <<>>)
    \o
    (IF \E brand \in major_brands : Contains(PlaceName(station), brand)
     THEN <<station>> ELSE <<>>)

RECURSIVE FilterAdBlue(_)
FilterAdBlue(gas_stations) ==
    IF gas_stations = <<>> THEN <<>>
    ELSE AdBlueEntries(Head(gas_stations)) \o FilterAdBlue(Tail(gas_stations))

\* Stations a gas_station search may return: Shell and Opet (brands), "24"
\* (neither), an AdBlue point (indicator) and a BP truck stop (both).
PlaceE == [id |-> "ChIJ-E", displayName |-> [text |-> <<"A", "d", "B", "l", "u", "e">>],
           location |-> Loc(410200000), types |-> <<"gas_station">>]

PlaceF == [id |-> "ChIJ-F",
           displayName |-> [text |-> <<"B", "P", " ", "T", "r", "u", "c", "k">>],
           location |-> Loc(410300000), types |-> <<"gas_station", "truck_stop">>]

GasStations == {PlaceA, PlaceB, PlaceC, PlaceE, PlaceF}

AdBlueArgs ==
    {[latitude |-> lat, longitude |-> Lon, radius_meters |-> r] :
        lat \in {410000000, 415000000}, r \in {25000, 50000}}

InitAdBlue ==
    /\ op = "search_adblue_stations"
    /\ args \in AdBlueArgs
    /\ InitCommon

\* self.search_nearby(..., place_types=["gas_station"]) is entered.
AdBlue_SearchNearby ==
    /\ op = "search_adblue_stations"
    /\ pc = "start"
    /\ LET q == NearbyQuery(args, args.radius_meters, <<"gas_station">>)
       IN  /\ pending' = Append(pending, q)
           /\ calls' = Append(calls, CallEvent(q))
    /\ pc' = "search_nearby"
    /\ UNCHANGED <<clock, routes_client, threads, sent, suspended,
                   op, args, route_response, route_details, route_points, idx,
                   all_services, num_stops, planned_stops, emergency_services, result>>

\* search_nearby returns; the stations are filtered by name and returned.
AdBlue_SearchReturned ==
    /\ op = "search_adblue_stations"
    /\ pc = "search_nearby"
    /\ \E outcome \in SearchOutcomes(GasStations) :
        LET gas_stations == search_nearby(outcome)
        IN  /\ calls' = Append(calls, ReturnEvent(Head(pending), outcome))
            /\ IF "raise" \in DOMAIN gas_stations
               THEN /\ result' = [raise |-> gas_stations.raise]
                    /\ pc' = "raised"
               ELSE /\ result' = [return |-> FilterAdBlue(gas_stations.return)]
                    /\ pc' = "returned"
    /\ pending' = Tail(pending)
    /\ UNCHANGED <<clock, routes_client, threads, sent, suspended,
                   op, args, route_response, route_details, route_points, idx,
                   all_services, num_stops, planned_stops, emergency_services>>

NextAdBlue ==
    \/ AdBlue_SearchNearby
    \/ AdBlue_SearchReturned

SpecAdBlue == InitAdBlue /\ [][NextAdBlue]_vars

\* q is a sub-list of s: its entries are entries of s at increasing positions.
RECURSIVE IsSubList(_, _)
IsSubList(q, s) ==
    IF q = <<>> THEN TRUE
    ELSE IF s = <<>> THEN FALSE
    ELSE IF Head(q) = Head(s) THEN IsSubList(Tail(q), Tail(s))
    ELSE IsSubList(q, Tail(s))

\* C30: the list returned by search_adblue_stations is a sub-list of the
\* stations search_nearby returned, in the same order, with each station at
\* most once.
C30_SubListWithoutRepeats ==
    (op = "search_adblue_stations" /\ pc = "returned") =>
        LET gas_stations == PlacesOf(calls[Len(calls)].outcome)
            adblue_stations == result.return
        IN  /\ IsSubList(adblue_stations, gas_stations)
            /\ \A i, j \in 1..Len(adblue_stations) :
                   i # j => adblue_stations[i] # adblue_stations[j]

====
